---- MODULE Spec2Model ----
(***************************************************************************)
(* Knife-hit game rules engine (rakhm9701/miniGame).                       *)
(*                                                                         *)
(* Two screens are modelled: the full game (src/unnamed/part_000, variant  *)
(* "game") and the earlier single-file game (src/app/(tabs)/index.tsx,     *)
(* variant "index").  A behaviour runs one of them.                        *)
(*                                                                         *)
(* Angles, speeds and the rotation are JavaScript numbers (IEEE-754       *)
(* doubles).  Every one the game computes is within a rounding error of a  *)
(* whole number of tenths of a degree, and is written [t, e]: the value is *)
(* t / 10 + e * 2^-56 / 5.  Additions and subtractions round to the        *)
(* nearest double, ties to even, as the code's do; comparisons are exact.  *)
(* One step of the rotation loop is one requestAnimationFrame callback.    *)
(* Callbacks scheduled with a 100 ms delay (the flight animation's         *)
(* completion callback and the win setTimeout) fire in the order in which  *)
(* they were scheduled: `pending' is a FIFO queue of those callbacks, each *)
(* holding the values its closure captured when it was created.            *)
(* Animated.Value.setValue stops an animation running on the value, and a  *)
(* stopped animation calls its start() callback at once ({finished:false}, *)
(* which the callback of throwKnife does not look at): initGame and        *)
(* startBossLevel, which call flyAnim.setValue(0), therefore run the       *)
(* callback of a throw still in flight inside their own batch of state     *)
(* updates.  State updates of one handler are applied in call order.       *)
(***************************************************************************)
EXTENDS Integers, Sequences, FiniteSets, TLC

\* ------------------------------------------------------------------ bounds
MaxRounds == 5      \* initGame / restart / next-stage calls explored in one run
MaxRestarts == 1    \* restarts explored in one run
MaxContinues == 2   \* continues explored in one run
MaxFrames == 20     \* frames explored after a throw or a round start (game); the late touch
EarlyFrames == 6    \* frames after which the player touches early (both screens)
MaxFlightFrames == 6 \* frames explored while a flight is under way (100 ms at 60 frames a second)
MaxTimerFrames == 12 \* frames explored while the win timer is pending; the touch during it
ContinueRounds == 1 \* continues are explored in the first ContinueRounds rounds of a run
AdRounds == 1       \* the doubled reward is explored at the end of the first AdRounds rounds
RandomRounds == 1   \* Math.random() is 0 after the first RandomRounds round initialisations
IxMaxFrames == 13   \* frames explored after a throw or a round start (index); the late touch
RandomDen == 30     \* Math.random() is drawn from {0/RandomDen .. (RandomDen-1)/RandomDen}
RandomLow == 1      \* a small value of Math.random() explored, in RandomDen-ths
RandomMid == 15     \* a middle value of Math.random() explored, in RandomDen-ths
LaunchRounds == 2   \* round initialisations explored in a run that starts at mount
LaunchKnives == 2   \* knives per round explored in a run that starts at mount
FaultyKnives == 1   \* knives per round explored in a run in which storage operations may fail
LaunchFullRounds == 1 \* rounds of a first launch that are played to the end
LaunchFrames == 12  \* frames between the later touches of such a round
MaxStage == 30      \* stage numbers 0..MaxStage are looked up in the boss table
AngleStep == 23     \* angles 0, AngleStep, 2 * AngleStep, .. below 360 degrees are paired (tenths)

\* ------------------------------------------------------- IEEE-754 doubles
\* A JavaScript number near a whole number of tenths is the record [t, e]:
\* its value is t / 10 + e * Unit, Unit = 2^-56 / 5.  One tenth is 2^55 units.
Num(t, e) == [t |-> t, e |-> e]

\* 2^n for n in 0..14
Pow2Table ==
  << 1, 2, 4, 8, 16, 32, 64, 128, 256, 512, 1024, 2048, 4096, 8192, 16384 >>

Pow2(n) == Pow2Table[n + 1]

\* 2^n modulo 5
Pow2Mod5(n) == << 1, 2, 4, 3 >>[(n % 4) + 1]

Negative(x) == x.t < 0 \/ (x.t = 0 /\ x.e < 0)

Negate(x) == Num(-x.t, -x.e)

\* x < y, x <= y on the exact values
Less(x, y) == x.t < y.t \/ (x.t = y.t /\ x.e < y.e)

LessEq(x, y) == x.t < y.t \/ (x.t = y.t /\ x.e <= y.e)

\* x >= 2^(j - 4), for x >= 0
AtLeastPow2(x, j) ==
  16 * x.t > 10 * Pow2(j) \/ (16 * x.t = 10 * Pow2(j) /\ x.e >= 0)

\* the exponent of x >= 1/16, shifted by 4: x lies in [2^(j - 4), 2^(j - 3))
\* and the doubles of that range are the multiples of 5 * 2^j units
RECURSIVE BinadeFrom(_, _)
BinadeFrom(x, j) == IF j = 0 \/ AtLeastPow2(x, j) THEN j ELSE BinadeFrom(x, j - 1)

Binade(x) == BinadeFrom(x, 13)

\* the units by which x exceeds a multiple of 5 * 2^j units
Excess(x, j) ==
  (Pow2(j) * (((x.t % 5) * Pow2Mod5(55 - j)) % 5) + x.e) % (5 * Pow2(j))

\* round to nearest, ties to even, of x >= 0
RoundMagnitude(x) ==
  IF x.t = 0
  THEN x
  ELSE LET j == Binade(x)
           ulp == 5 * Pow2(j)
           q == Excess(x, j + 1)
           r == q % ulp
           odd == q >= ulp
       IN  IF 2 * r < ulp \/ (2 * r = ulp /\ ~odd)
           THEN Num(x.t, x.e - r)
           ELSE Num(x.t, x.e + ulp - r)

\* the double nearest to the exact value x
RoundToDouble(x) ==
  IF Negative(x) THEN Negate(RoundMagnitude(Negate(x))) ELSE RoundMagnitude(x)

\* a decimal literal of the source with one decimal place: 1.5 is Literal(15)
Literal(t) == RoundToDouble(Num(t, 0))

\* x + y, x - y and n * x of JavaScript numbers (n a whole number)
Plus(x, y) == RoundToDouble(Num(x.t + y.t, x.e + y.e))

Minus(x, y) == RoundToDouble(Num(x.t - y.t, x.e - y.e))

Times(n, x) == RoundToDouble(Num(n * x.t, n * x.e))

\* Math.abs
MathAbs(x) == IF Negative(x) THEN Negate(x) ELSE x

\* x % 360 for 0 <= x < 720: the remainder is exact
Mod360(x) == IF LessEq(Num(3600, 0), x) THEN Num(x.t - 3600, x.e) ELSE x

\* a whole number n as a JavaScript number
Whole(n) == Num(10 * n, 0)

\* ------------------------------------------------- program constants (game)
FullTurn == Whole(360)
HalfTurn == Whole(180)
BASE_KNIVES == 10
BASE_APPLES == 10
ROTATION_SPEED == Literal(15)
COLLISION_GAP == Whole(18)
APPLE_GAP == Whole(15)
StageSpeedStep == Literal(1)
BaseReward == 50
ContinueKnives == 3
KnifeScore == 10
AppleScore == 5

BOSSES ==
  << [stage |-> 5,  knives |-> 12, apples |-> 8, speed |-> Literal(20), reward |-> 200],
     [stage |-> 10, knives |-> 14, apples |-> 6, speed |-> Literal(22), reward |-> 300],
     [stage |-> 15, knives |-> 15, apples |-> 5, speed |-> Literal(25), reward |-> 400],
     [stage |-> 20, knives |-> 16, apples |-> 4, speed |-> Literal(28), reward |-> 500],
     [stage |-> 25, knives |-> 18, apples |-> 3, speed |-> Literal(30), reward |-> 1000] >>

\* ------------------------------------------------ program constants (index)
IxTOTAL_KNIVES == 8
IxROTATION_SPEED == Whole(2)
IxCOLLISION_GAP == Whole(25)
IxWinBonus == 50

VARIABLES
  variant,          \* "game" (part_000) or "index" (index.tsx)
  rotation,         \* rotationRef.current / rotation state
  stuckKnives,      \* sequence of stuck-knife angles
  apples,           \* sequence of [id, angle, visible]
  knivesLeft,
  gameState,
  stage,
  score,
  applesHit,
  isThrowing,
  hasUsedContinue,
  currentBoss,      \* 0 = null, else index into BOSSES
  isBossLevel,
  coins,
  highScore,
  pending,          \* FIFO queue of scheduled callbacks with their closures
  rounds,           \* history: number of round initialisations so far
  restarts,         \* history: number of restarts so far
  continues,        \* history: number of continues so far
  frames,           \* history: frames run since the last accepted throw or round start
  scenario,         \* "launch": the run starts when the component mounts;
                    \* "faulty": as launch, and storage operations may fail;
                    \* "play": it starts after loadSavedData has finished
  store,            \* AsyncStorage: coins, highScore, rewardDay, rewarded today
  loader,           \* loadSavedData: its position and the values it has read
  showDailyReward,
  rewardDay,
  dailyRewardAmount,
  launchCoins,      \* history: the coin balance stored when the app was launched
  firstLaunch,      \* history: nothing was stored when the app was launched
  roundScore,       \* history: score when the round data were last reset
  roundCoins,       \* history: coins when the round data were last reset
  roundWins,        \* history: runs of the win timer since the round data were last reset
  maxScore          \* history: the largest value score has taken

vars == << variant, rotation, stuckKnives, apples, knivesLeft, gameState, stage,
           score, applesHit, isThrowing, hasUsedContinue, currentBoss,
           isBossLevel, coins, highScore, pending, rounds, restarts, continues, frames,
           scenario, store, loader, showDailyReward, rewardDay, dailyRewardAmount,
           launchCoins, firstLaunch, roundScore, roundCoins, roundWins, maxScore >>

\* the start-up and daily-reward state, which the game handlers leave alone
startupVars == << scenario, loader, showDailyReward, rewardDay, dailyRewardAmount,
                 launchCoins, firstLaunch >>

\* the score and coins recorded at round start, and the win timers run since
roundVars == << roundScore, roundCoins, roundWins >>

\* ----------------------------------------------------------------- helpers
\* a distance that is not folded back at 180 degrees
AngleDiffNoFold(a, b) == MathAbs(Minus(a, b))

\* let diff = Math.abs(a - b); if (diff > 180) diff = 360 - diff;
AngleDiff(a, b) ==
  LET diff == MathAbs(Minus(a, b))
  IN  IF Less(HalfTurn, diff) THEN Minus(FullTurn, diff) ELSE diff

\* (180 - rotationRef.current + 360) % 360
HitAngle(rot) == Mod360(Plus(Minus(HalfTurn, rot), FullTurn))

\* KnifeCollision with the ledger scan stopped after the first knife
KnifeCollisionFirstOnly(knives, hitAngle) ==
  /\ Len(knives) > 0
  /\ Less(AngleDiff(knives[1], hitAngle), COLLISION_GAP)

\* a collision test that takes |a - b| for the distance, without the wrap
KnifeCollisionNoWrap(knives, hitAngle) ==
  \E i \in 1..Len(knives) : Less(MathAbs(Minus(knives[i], hitAngle)), COLLISION_GAP)

\* for (const kAngle of stuckKnives) ... if (diff < COLLISION_GAP)
KnifeCollision(knives, hitAngle) ==
  \E i \in 1..Len(knives) : Less(AngleDiff(knives[i], hitAngle), COLLISION_GAP)

\* index.tsx: for (const existingAngle of knives) ... if (diff < COLLISION_GAP)
IxKnifeCollision(knives, stickAngle) ==
  \E i \in 1..Len(knives) : Less(AngleDiff(knives[i], stickAngle), IxCOLLISION_GAP)

\* a lookup that finds the boss one stage late
getBossForStageLate(stageNum) ==
  IF \E i \in 1..Len(BOSSES) : BOSSES[i].stage = stageNum - 1
  THEN CHOOSE i \in 1..Len(BOSSES) : BOSSES[i].stage = stageNum - 1
  ELSE 0

\* BOSSES.find(b => b.stage === stageNum) || null
getBossForStage(stageNum) ==
  IF \E i \in 1..Len(BOSSES) : BOSSES[i].stage = stageNum
  THEN CHOOSE i \in 1..Len(BOSSES) : BOSSES[i].stage = stageNum
  ELSE 0

\* 360 / count: a whole number of tenths for the counts the game uses (10
\* and the bosses' 8, 6, 5, 4, 3), and so exact
StepFor(count) == Num(FullTurn.t \div count, 0)

\* the loop of generateApples(count) for one offset:
\* arr.push({ id: i, angle: (offset + i * (360 / count)) % 360, visible: true })
ApplesAt(count, offset) ==
  [i \in 1..count |->
     [id |-> i - 1,
      angle |-> Mod360(Plus(offset, Times(i - 1, StepFor(count)))),
      visible |-> TRUE]]

\* const offset = Math.random() * (360 / count), for Math.random() = r / RandomDen:
\* for every count the game uses the share of the step is a whole number of
\* tenths of a degree, and for the shares in RandomShares the product of the
\* two doubles is the double nearest to it (0, 1.2 and 18 for count 10)
RandomOffset(count, r) == Literal((r * StepFor(count).t) \div RandomDen)

\* generateApples(count)
generateApples(count, r) == ApplesAt(count, RandomOffset(count, r))

\* isBossLevel && currentBoss ? currentBoss.knives : BASE_KNIVES
TotalKnives(isBoss, boss) ==
  IF isBoss /\ boss # 0 THEN BOSSES[boss].knives ELSE BASE_KNIVES

\* isBossLevel && currentBoss ? currentBoss.apples : BASE_APPLES
TotalApples(isBoss, boss) ==
  IF isBoss /\ boss # 0 THEN BOSSES[boss].apples ELSE BASE_APPLES

\* let stageReward = 50; if (isBossLevel && currentBoss) stageReward = currentBoss.reward
StageReward(isBoss, boss) ==
  IF isBoss /\ boss # 0 THEN BOSSES[boss].reward ELSE BaseReward

\* baseSpeed + (stage - 1) * 0.1
Speed(isBoss, boss, stg) ==
  Plus(IF isBoss /\ boss # 0 THEN BOSSES[boss].speed ELSE ROTATION_SPEED,
       Times(stg - 1, StageSpeedStep))

\* one run of the loop body: (rotationRef.current + speed) % 360
Turned(rot, speed) == Mod360(Plus(rot, speed))

\* useEffect: if (score > highScore) setHighScore(score)
HighScoreEffect(s, h) == IF s > h THEN s ELSE h

\* ----------------------------------------------------------------- storage
\* const DAILY_REWARDS = [50, 100, 150, 200, 300, 500, 1000];
DAILY_REWARDS == << 50, 100, 150, 200, 300, 500, 1000 >>

\* AsyncStorage.getItem of a key that was never set returns null
Absent == -1

\* loadData: value ? JSON.parse(value) : defaultValue.  The stored text of a
\* number is never empty, so every stored number, 0 included, is returned.
loadData(value, defaultValue) == IF value = Absent THEN defaultValue ELSE value

\* the values the keys may hold when the app is launched
StoredCoins == {Absent, 35}

StoredHighScores == {Absent, 20}

StoredRewardDays == {Absent, 7}

\* the storage of a device on which the reward of today has been claimed and
\* no score was ever made, as read by a launch that has finished loading
LoadedStore ==
  [coins |-> 0, highScore |-> Absent, rewardedToday |-> TRUE, rewardDay |-> 2]

\* loadSavedData before it has read anything; readsFailed is history: every
\* read made so far has thrown
LoaderAt(pc) ==
  [pc |-> pc, savedCoins |-> 0, savedHighScore |-> 0, lastRewardToday |-> FALSE,
   savedRewardDay |-> 1, readsFailed |-> FALSE]

Max(a, b) == IF a > b THEN a ELSE b

\* the outcomes of one AsyncStorage call: TRUE when it resolves, FALSE when it
\* throws and the catch of saveData / loadData swallows the error
Outcomes == IF scenario = "faulty" THEN BOOLEAN ELSE {TRUE}

\* loadData(key, defaultValue) whose getItem resolved (ok) or threw
loadDataOutcome(ok, value, defaultValue) ==
  IF ok THEN loadData(value, defaultValue) ELSE defaultValue

\* ---------------------------------------------------------------- initial
\* the stored values a run starts with: a run with failing storage starts
\* with every key present, a failed read standing in for a missing key
Stored(values) == IF scenario = "faulty" THEN values \ {Absent} ELSE values

Init ==
  /\ variant \in {"game", "index"}
  /\ scenario \in IF variant = "game" THEN {"play", "launch", "faulty"} ELSE {"play"}
  /\ IF scenario # "play"
     THEN /\ store \in [coins : Stored(StoredCoins),
                        highScore : Stored(StoredHighScores),
                        rewardedToday : BOOLEAN,
                        rewardDay : Stored(StoredRewardDays)]
          /\ loader = LoaderAt("mount")
          /\ rewardDay = 1
     ELSE /\ store = LoadedStore
          /\ loader = LoaderAt("done")
          /\ rewardDay = IF variant = "game" THEN LoadedStore.rewardDay ELSE 1
  /\ showDailyReward = FALSE
  /\ dailyRewardAmount = 50
  /\ launchCoins = loadData(store.coins, 0)
  /\ firstLaunch = /\ store.coins = Absent
                   /\ store.highScore = Absent
                   /\ store.rewardDay = Absent
                   /\ ~store.rewardedToday
  /\ roundScore = 0
  /\ roundCoins = 0
  /\ roundWins = 0
  /\ maxScore = 0
  /\ rotation = Whole(0)
  /\ stuckKnives = << >>
  /\ apples = << >>
  /\ knivesLeft = IF variant = "game" THEN BASE_KNIVES ELSE IxTOTAL_KNIVES
  /\ gameState = IF variant = "game" THEN "ready" ELSE "playing"
  /\ stage = 1
  /\ score = 0
  /\ applesHit = 0
  /\ isThrowing = FALSE
  /\ hasUsedContinue = FALSE
  /\ currentBoss = 0
  /\ isBossLevel = FALSE
  /\ coins = 0
  /\ highScore = 0
  /\ pending = << >>
  /\ rounds = 0
  /\ restarts = 0
  /\ continues = 0
  /\ frames = 0


\* ------------------------------------------------- the flight callback
\* the test of the map callback: the apple is visible and its distance to the
\* hit angle is below APPLE_GAP
AppleHit(apple, hitAngle) ==
  apple.visible /\ Less(AngleDiff(apple.angle, hitAngle), APPLE_GAP)

\* indices of the apples the map callback counts in appleHitCount
HitApples(as, hitAngle) == { i \in 1..Len(as) : AppleHit(as[i], hitAngle) }

\* a map that drops the apples hit instead of hiding them
MarkApplesDropsHit(as, hitAngle) ==
  SelectSeq(as, LAMBDA a : ~AppleHit(a, hitAngle))

\* apples.map(...) of the flight callback
MarkApples(as, hitAngle) ==
  [i \in 1..Len(as) |->
     IF AppleHit(as[i], hitAngle) THEN [as[i] EXCEPT !.visible = FALSE] ELSE as[i]]

\* the win setTimeout is scheduled when newKnives.length >= totalKnives
WinReached(newKnives, isBoss, boss) == Len(newKnives) >= TotalKnives(isBoss, boss)

\* the closure of the win setTimeout
WinEntry(e) ==
  [kind |-> "win", hitAngle |-> 0, knives |-> << >>, apples |-> << >>,
   boss |-> e.boss, isBoss |-> e.isBoss]

\* the state the updaters of one handler work on
Cur ==
  [apples |-> apples, stuckKnives |-> stuckKnives, knivesLeft |-> knivesLeft,
   applesHit |-> applesHit, score |-> score, coins |-> coins,
   gameState |-> gameState, isThrowing |-> isThrowing, pending |-> pending]

\* a failure that also drops the knives stuck so far
throwFailedClearsLedger(e, st) ==
  [st EXCEPT !.gameState = "failed", !.isThrowing = FALSE, !.stuckKnives = << >>]

\* the callback found a stuck knife within COLLISION_GAP of the hit angle
throwFailed(e, st) ==
  [st EXCEPT !.gameState = "failed", !.isThrowing = FALSE]

\* the callback found no collision: apples, ledger, counters, win check
throwHit(e, st) ==
  LET appleHitCount == Cardinality(HitApples(e.apples, e.hitAngle))
      newKnives == Append(e.knives, e.hitAngle)
  IN  [st EXCEPT
         !.apples = IF appleHitCount > 0 THEN MarkApples(e.apples, e.hitAngle) ELSE @,
         !.score = @ + AppleScore * appleHitCount + KnifeScore,
         !.applesHit = @ + appleHitCount,
         !.coins = @ + AppleScore * appleHitCount,
         !.stuckKnives = newKnives,
         !.knivesLeft = @ - 1,
         !.pending = IF WinReached(newKnives, e.isBoss, e.boss)
                     THEN Append(@, WinEntry(e)) ELSE @,
         !.isThrowing = FALSE]

\* the start() callback of the flight animation, with the closure e of its
\* throw, applied to the state st left by the updates queued before it
flightCallback(e, st) ==
  IF KnifeCollision(e.knives, e.hitAngle) THEN throwFailed(e, st) ELSE throwHit(e, st)

\* the pending callbacks without the flight callback
WithoutFlight(q) == SelectSeq(q, LAMBDA e : e.kind # "throw")

FlightPending(q) == \E i \in 1..Len(q) : q[i].kind = "throw"

TheFlight(q) == q[CHOOSE i \in 1..Len(q) : q[i].kind = "throw"]

\* flyAnim.setValue(0): a flight still under way is stopped and its callback runs
stopFlight(st) ==
  IF FlightPending(st.pending)
  THEN flightCallback(TheFlight(st.pending),
                      [st EXCEPT !.pending = WithoutFlight(@)])
  ELSE st

\* the batch of one handler is rendered; the high-score effect runs after it
Commit(st) ==
  /\ apples' = st.apples
  /\ stuckKnives' = st.stuckKnives
  /\ knivesLeft' = st.knivesLeft
  /\ applesHit' = st.applesHit
  /\ score' = st.score
  /\ coins' = st.coins
  /\ gameState' = st.gameState
  /\ isThrowing' = st.isThrowing
  /\ pending' = st.pending
  /\ highScore' = HighScoreEffect(st.score, highScore)
  /\ \E okCoins, okHighScore \in Outcomes :
        store' = [store EXCEPT
                    !.coins = IF st.coins # coins /\ okCoins THEN st.coins ELSE @,
                    !.highScore = IF st.score > highScore /\ okHighScore
                                  THEN st.score ELSE @]
  /\ maxScore' = Max(maxScore, st.score)

\* ------------------------------------------------------------ round set-up
\* the round initialisations explored in this run
RoundLimit == IF scenario # "play" THEN LaunchRounds ELSE MaxRounds

\* a run that starts at mount, and a run after a restart, is explored briefly
Brief == scenario # "play" \/ restarts > 0

\* the knives per round explored in a brief run
BriefKnives == IF scenario = "faulty" THEN FaultyKnives ELSE LaunchKnives

\* the app was launched for the first time: nothing was stored
FirstLaunch == firstLaunch

\* the first rounds of a first launch are also played to the end: after the
\* first knife has stuck, with touches LaunchFrames frames apart
LateTouch ==
  scenario = "launch" /\ restarts = 0 /\ rounds <= LaunchFullRounds /\ FirstLaunch

\* the touches explored: the player touches EarlyFrames or MaxFrames frames
\* after the last accepted throw or the round start, or MaxTimerFrames after
\* it while a callback is pending; in a brief run only early, and
\* BriefKnives knives per round, and late where LateTouch allows it
ThrowExplored ==
  IF Brief
  THEN \/ frames = EarlyFrames /\ Len(stuckKnives) < BriefKnives
       \/ frames = LaunchFrames /\ LateTouch /\ stuckKnives # << >>
  ELSE \/ frames \in {EarlyFrames, MaxFrames}
       \/ frames = MaxTimerFrames /\ pending # << >>

\* the values of Math.random() explored, in RandomDen-ths
RandomShares == {0, RandomLow, RandomMid}

\* the values of Math.random() explored at the next round initialisation
Randoms == IF rounds < RandomRounds /\ ~LateTouch THEN RandomShares ELSE {0}

\* a press reaches the game screen: the component is mounted and the daily
\* reward <Modal> does not cover the screen
CanPress == loader.pc # "mount" /\ ~showDailyReward

\* the round data a normal stage starts with (initGame, lines 474-482)
NormalRound(st, r) ==
  [st EXCEPT !.apples = generateApples(BASE_APPLES, r),
             !.stuckKnives = << >>,
             !.knivesLeft = BASE_KNIVES,
             !.applesHit = 0,
             !.isThrowing = FALSE]

\* the round data a boss stage starts with (startBossLevel, lines 491-499)
BossRound(st, boss, r) ==
  [st EXCEPT !.apples = generateApples(BOSSES[boss].apples, r),
             !.stuckKnives = << >>,
             !.knivesLeft = BOSSES[boss].knives,
             !.applesHit = 0,
             !.isThrowing = FALSE]

\* initGame(stageNum) on the state st: a boss stage only records the boss and
\* shows the intro; a normal stage resets the round data, stops the flight
\* animation and starts playing.
initGame(stageNum, st, r) ==
  LET boss == getBossForStage(stageNum)
  IN  /\ rounds' = rounds + 1
      /\ IF boss # 0
         THEN /\ currentBoss' = boss
              /\ isBossLevel' = TRUE
              /\ Commit([st EXCEPT !.gameState = "boss_intro"])
              /\ UNCHANGED << hasUsedContinue, rotation, frames, roundVars >>
         ELSE /\ currentBoss' = 0
              /\ isBossLevel' = FALSE
              /\ hasUsedContinue' = FALSE
              /\ rotation' = Whole(0)
              /\ frames' = 0
              /\ roundScore' = st.score
              /\ roundCoins' = st.coins
              /\ roundWins' = 0
              /\ Commit([stopFlight(NormalRound(st, r)) EXCEPT !.gameState = "playing"])

\* ready screen: <Pressable onPress={() => initGame(1)}>
Play ==
  /\ variant = "game"
  /\ CanPress
  /\ gameState = "ready"
  /\ rounds < RoundLimit
  /\ \E r \in Randoms : initGame(1, Cur, r)
  /\ UNCHANGED << variant, stage, restarts, continues, startupVars >>

\* boss intro modal's FIGHT! button
startBossLevel ==
  /\ variant = "game"
  /\ CanPress
  /\ gameState = "boss_intro"
  /\ currentBoss # 0
  /\ roundScore' = score
  /\ roundCoins' = coins
  /\ roundWins' = 0
  /\ \E r \in Randoms :
        Commit([stopFlight(BossRound(Cur, currentBoss, r)) EXCEPT !.gameState = "playing"])
  /\ hasUsedContinue' = FALSE
  /\ rotation' = Whole(0)
  /\ frames' = 0
  /\ UNCHANGED << variant, stage, currentBoss, isBossLevel, rounds, restarts,
                  continues, startupVars >>

\* ------------------------------------------------------------ rotation loop
\* the frames explored: MaxFrames after a throw or a round start (EarlyFrames
\* in a brief run, LaunchFrames where it has late touches), MaxFlightFrames
\* of them while a flight is under way and MaxTimerFrames while the win timer
\* is pending
FrameExplored ==
  /\ frames < (IF ~Brief THEN MaxFrames
               ELSE IF LateTouch /\ stuckKnives # << >> THEN LaunchFrames
               ELSE EarlyFrames)
  /\ FlightPending(pending) => frames < MaxFlightFrames
  /\ pending # << >> => frames < MaxTimerFrames

\* a loop that keeps running whatever the phase
loopInEveryPhase ==
  /\ variant = "game"
  /\ FrameExplored
  /\ rotation' = Turned(rotation, Speed(isBossLevel, currentBoss, stage))
  /\ frames' = frames + 1
  /\ UNCHANGED << variant, stuckKnives, apples, knivesLeft, gameState, stage,
                  score, applesHit, isThrowing, hasUsedContinue, currentBoss,
                  isBossLevel, coins, highScore, pending, rounds, restarts,
                  continues, store, maxScore, roundVars, startupVars >>

\* one requestAnimationFrame callback of the rotation effect, which is
\* installed only while gameState is playing
loop ==
  /\ variant = "game"
  /\ gameState = "playing"
  /\ FrameExplored
  /\ rotation' = Turned(rotation, Speed(isBossLevel, currentBoss, stage))
  /\ frames' = frames + 1
  /\ UNCHANGED << variant, stuckKnives, apples, knivesLeft, gameState, stage,
                  score, applesHit, isThrowing, hasUsedContinue, currentBoss,
                  isBossLevel, coins, highScore, pending, rounds, restarts,
                  continues, store, maxScore, roundVars, startupVars >>

\* ------------------------------------------------------------------- throw
\* the guard of throwKnife without its isThrowing test
ThrowRejectedNoFlightTest == gameState # "playing" \/ knivesLeft <= 0

\* the guard of throwKnife without its knivesLeft test
ThrowRejectedNoKnifeTest == gameState # "playing" \/ isThrowing

\* the guard of throwKnife without its gameState test
ThrowRejectedNoPhaseTest == knivesLeft <= 0 \/ isThrowing

\* if (gameState !== 'playing' || knivesLeft <= 0 || isThrowing) return;
ThrowRejected == gameState # "playing" \/ knivesLeft <= 0 \/ isThrowing

\* the closure of the flight callback: hitAngle is taken when the knife is thrown
FlightEntry ==
  [kind |-> "throw", hitAngle |-> HitAngle(rotation), knives |-> stuckKnives,
   apples |-> apples, boss |-> currentBoss, isBoss |-> isBossLevel]

\* throwKnife, up to the start of the flight animation
throwKnife ==
  /\ variant = "game"
  /\ CanPress
  /\ ThrowExplored
  /\ IF ThrowRejected
     THEN UNCHANGED << apples, stuckKnives, knivesLeft, applesHit, score, coins,
                       gameState, isThrowing, pending, frames, highScore, store,
                       maxScore >>
     ELSE /\ Commit([stopFlight([Cur EXCEPT !.isThrowing = TRUE])
                       EXCEPT !.pending = Append(@, FlightEntry)])
          /\ frames' = 0
  /\ UNCHANGED << variant, rotation, stage, hasUsedContinue, currentBoss,
                  isBossLevel, rounds, restarts, continues, roundVars,
                  startupVars >>

\* the flight animation ends after its 100 ms: its callback runs
throwLanded ==
  /\ variant = "game"
  /\ pending # << >>
  /\ Head(pending).kind = "throw"
  /\ Commit(flightCallback(Head(pending), [Cur EXCEPT !.pending = Tail(@)]))
  /\ UNCHANGED << variant, rotation, stage, hasUsedContinue, currentBoss,
                  isBossLevel, rounds, restarts, continues, frames, roundVars,
                  startupVars >>

\* the setTimeout(..., 100) callback scheduled by the winning throw
winTimer ==
  /\ variant = "game"
  /\ pending # << >>
  /\ Head(pending).kind = "win"
  /\ LET stageReward == StageReward(Head(pending).isBoss, Head(pending).boss)
     IN  Commit([Cur EXCEPT !.score = @ + stageReward,
                            !.coins = @ + stageReward,
                            !.gameState = "win",
                            !.pending = Tail(@)])
  /\ roundWins' = roundWins + 1
  /\ UNCHANGED << variant, rotation, stage, hasUsedContinue, currentBoss,
                  isBossLevel, rounds, restarts, continues, frames, roundScore,
                  roundCoins, startupVars >>

\* --------------------------------------------------------- overlay buttons
\* the failed screen with the continue button rendered unconditionally
ContinueOfferedAlways == gameState = "failed"

\* failed screen: the continue button is rendered only when !hasUsedContinue
ContinueOffered == gameState = "failed" /\ ~hasUsedContinue

\* a continue that adds three knives to those left instead of setting three
watchAdContinueAddsKnives ==
  /\ variant = "game"
  /\ CanPress
  /\ ContinueOffered
  /\ continues < MaxContinues
  /\ rounds <= ContinueRounds
  /\ continues' = continues + 1
  /\ hasUsedContinue' = TRUE
  /\ knivesLeft' = knivesLeft + ContinueKnives
  /\ gameState' = "playing"
  /\ UNCHANGED << variant, rotation, stuckKnives, apples, stage, score,
                  applesHit, isThrowing, currentBoss, isBossLevel, coins,
                  highScore, pending, rounds, restarts, frames, store, maxScore,
                  roundVars, startupVars >>

\* failed screen: WATCH AD to continue (lines 633-638)
watchAdContinue ==
  /\ variant = "game"
  /\ CanPress
  /\ ContinueOffered
  /\ continues < MaxContinues
  /\ rounds <= ContinueRounds
  /\ continues' = continues + 1
  /\ hasUsedContinue' = TRUE
  /\ knivesLeft' = ContinueKnives
  /\ gameState' = "playing"
  /\ UNCHANGED << variant, rotation, stuckKnives, apples, stage, score,
                  applesHit, isThrowing, currentBoss, isBossLevel, coins,
                  highScore, pending, rounds, restarts, frames, store, maxScore,
                  roundVars, startupVars >>

\* a restart that carries the score into the new game
restartGameKeepsScore ==
  /\ variant = "game"
  /\ CanPress
  /\ gameState = "failed"
  /\ restarts < MaxRestarts
  /\ stage' = 1
  /\ restarts' = restarts + 1
  /\ \E r \in Randoms : initGame(1, Cur, r)
  /\ UNCHANGED << variant, continues, startupVars >>

\* failed screen: RESTART
restartGame ==
  /\ variant = "game"
  /\ CanPress
  /\ gameState = "failed"
  /\ restarts < MaxRestarts
  /\ stage' = 1
  /\ restarts' = restarts + 1
  /\ \E r \in Randoms : initGame(1, [Cur EXCEPT !.score = 0], r)
  /\ UNCHANGED << variant, continues, startupVars >>

\* win screen: NEXT STAGE
nextStage ==
  /\ variant = "game"
  /\ CanPress
  /\ gameState = "win"
  /\ rounds < RoundLimit
  /\ stage' = stage + 1
  /\ \E r \in Randoms : initGame(stage + 1, Cur, r)
  /\ UNCHANGED << variant, restarts, continues, startupVars >>

\* win screen: watch ad for 2x coins, then nextStage()
watchAdDouble ==
  /\ variant = "game"
  /\ CanPress
  /\ gameState = "win"
  /\ rounds < RoundLimit
  /\ rounds <= AdRounds
  /\ stage' = stage + 1
  /\ \E r \in Randoms :
        initGame(stage + 1,
                 [Cur EXCEPT !.coins = @ + StageReward(isBossLevel, currentBoss)], r)
  /\ UNCHANGED << variant, restarts, continues, startupVars >>

\* ------------------------------------------------- index.tsx (variant index)
\* one requestAnimationFrame callback of the rotation effect, installed while
\* playing: setRotation((prev) => (prev + ROTATION_SPEED) % 360)
IxAnimate ==
  /\ variant = "index"
  /\ gameState = "playing"
  /\ frames < IxMaxFrames
  /\ rotation' = Turned(rotation, IxROTATION_SPEED)
  /\ frames' = frames + 1
  /\ UNCHANGED << variant, stuckKnives, apples, knivesLeft, gameState, stage,
                  score, applesHit, isThrowing, hasUsedContinue, currentBoss,
                  isBossLevel, coins, highScore, pending, rounds, restarts, continues,
                  store, maxScore, roundVars, startupVars >>

\* if (gameState !== 'playing' || knivesLeft <= 0) return;
IxThrowRejected == gameState # "playing" \/ knivesLeft <= 0

\* the touches explored: EarlyFrames or IxMaxFrames frames after the last
\* accepted throw or the round start
IxThrowExplored == frames \in {EarlyFrames, IxMaxFrames}

\* index.tsx throwKnife: resolved synchronously
IxThrowKnife ==
  /\ variant = "index"
  /\ IxThrowExplored
  /\ IF IxThrowRejected
     THEN UNCHANGED << stuckKnives, knivesLeft, score, gameState, frames >>
     ELSE LET stickAngle == HitAngle(rotation)
              newKnives == Append(stuckKnives, stickAngle)
          IN  IF IxKnifeCollision(stuckKnives, stickAngle)
              THEN /\ gameState' = "failed"
                   /\ UNCHANGED << stuckKnives, knivesLeft, score, frames >>
              ELSE /\ stuckKnives' = newKnives
                   /\ knivesLeft' = knivesLeft - 1
                   /\ frames' = 0
                   /\ IF Len(newKnives) = IxTOTAL_KNIVES
                      THEN /\ gameState' = "win"
                           /\ score' = score + KnifeScore + IxWinBonus
                      ELSE /\ gameState' = gameState
                           /\ score' = score + KnifeScore
  /\ maxScore' = Max(maxScore, score')
  /\ UNCHANGED << variant, rotation, apples, stage, applesHit, isThrowing,
                  hasUsedContinue, currentBoss, isBossLevel, coins, highScore,
                  pending, rounds, restarts, continues, store, roundVars,
                  startupVars >>

\* index.tsx restartGame (RETRY on the game-over overlay)
IxRestartGame ==
  /\ variant = "index"
  /\ gameState = "failed"
  /\ rounds < RoundLimit
  /\ restarts < MaxRestarts
  /\ rotation' = Whole(0)
  /\ stuckKnives' = << >>
  /\ knivesLeft' = IxTOTAL_KNIVES
  /\ gameState' = "playing"
  /\ score' = 0
  /\ stage' = 1
  /\ rounds' = rounds + 1
  /\ restarts' = restarts + 1
  /\ frames' = 0
  /\ roundScore' = 0
  /\ UNCHANGED << variant, apples, applesHit, isThrowing, hasUsedContinue,
                  currentBoss, isBossLevel, coins, highScore, pending,
                  continues, store, maxScore, roundCoins, roundWins,
                  startupVars >>

\* index.tsx nextStage (NEXT STAGE on the win overlay)
IxNextStage ==
  /\ variant = "index"
  /\ gameState = "win"
  /\ rounds < RoundLimit
  /\ stage' = stage + 1
  /\ rotation' = Whole(0)
  /\ stuckKnives' = << >>
  /\ knivesLeft' = IxTOTAL_KNIVES
  /\ gameState' = "playing"
  /\ rounds' = rounds + 1
  /\ frames' = 0
  /\ roundScore' = score
  /\ UNCHANGED << variant, apples, score, applesHit, isThrowing,
                  hasUsedContinue, currentBoss, isBossLevel, coins, highScore,
                  pending, restarts, continues, store, maxScore, roundCoins,
                  roundWins, startupVars >>

\* ------------------------------------------------- start-up (loadSavedData)
\* everything of the game that start-up and the daily reward leave alone
playVars == << variant, rotation, stuckKnives, apples, knivesLeft, gameState,
               stage, score, applesHit, isThrowing, hasUsedContinue, currentBoss,
               isBossLevel, pending, rounds, restarts, continues, frames,
               scenario, launchCoins, firstLaunch, roundVars, maxScore >>

\* the effects of the first render: loadSavedData runs up to its first await
\* (soundManager.load()), the save-coins effect writes the initial coins, the
\* high-score effect finds score > highScore false
mount ==
  /\ loader.pc = "mount"
  /\ loader' = [loader EXCEPT !.pc = "sound"]
  /\ \E ok \in Outcomes : store' = [store EXCEPT !.coins = IF ok THEN coins ELSE @]
  /\ UNCHANGED << playVars, coins, highScore, showDailyReward, rewardDay,
                  dailyRewardAmount >>

\* soundManager.load() has resolved: loadData(StorageKeys.COINS, 0)
loadCoins ==
  /\ loader.pc = "sound"
  /\ \E ok \in Outcomes :
        loader' = [loader EXCEPT !.pc = "coins",
                                 !.savedCoins = loadDataOutcome(ok, store.coins, 0),
                                 !.readsFailed = ~ok]
  /\ UNCHANGED << playVars, coins, highScore, store, showDailyReward, rewardDay,
                  dailyRewardAmount >>

\* loadData(StorageKeys.HIGH_SCORE, 0)
loadHighScore ==
  /\ loader.pc = "coins"
  /\ \E ok \in Outcomes :
        loader' = [loader EXCEPT !.pc = "highScore",
                                 !.savedHighScore = loadDataOutcome(ok, store.highScore, 0),
                                 !.readsFailed = @ /\ ~ok]
  /\ UNCHANGED << playVars, coins, highScore, store, showDailyReward, rewardDay,
                  dailyRewardAmount >>

\* loadData(StorageKeys.LAST_REWARD_DATE, null): lastRewardToday records
\* whether the value read is the date string of today
loadLastRewardDate ==
  /\ loader.pc = "highScore"
  /\ \E ok \in Outcomes :
        loader' = [loader EXCEPT !.pc = "date",
                                 !.lastRewardToday = ok /\ store.rewardedToday,
                                 !.readsFailed = @ /\ ~ok]
  /\ UNCHANGED << playVars, coins, highScore, store, showDailyReward, rewardDay,
                  dailyRewardAmount >>

\* loadData(StorageKeys.REWARD_DAY, 1)
loadRewardDay ==
  /\ loader.pc = "date"
  /\ \E ok \in Outcomes :
        loader' = [loader EXCEPT !.pc = "reward",
                                 !.savedRewardDay = loadDataOutcome(ok, store.rewardDay, 1),
                                 !.readsFailed = @ /\ ~ok]
  /\ UNCHANGED << playVars, coins, highScore, store, showDailyReward, rewardDay,
                  dailyRewardAmount >>

\* the setters after the last await, and the effects of the render they cause
applySavedData ==
  /\ loader.pc = "reward"
  /\ loader' = [loader EXCEPT !.pc = "done"]
  /\ coins' = loader.savedCoins
  /\ highScore' = HighScoreEffect(score, loader.savedHighScore)
  /\ rewardDay' = loader.savedRewardDay
  /\ IF ~loader.lastRewardToday
     THEN /\ dailyRewardAmount' =
                DAILY_REWARDS[((loader.savedRewardDay - 1) % Len(DAILY_REWARDS)) + 1]
          /\ showDailyReward' = TRUE
     ELSE UNCHANGED << dailyRewardAmount, showDailyReward >>
  /\ \E okCoins, okHighScore \in Outcomes :
        store' = [store EXCEPT
                    !.coins = IF loader.savedCoins # coins /\ okCoins
                              THEN loader.savedCoins ELSE @,
                    !.highScore = IF score > loader.savedHighScore /\ okHighScore
                                  THEN score ELSE @]
  /\ UNCHANGED playVars

\* a claim that counts the streak day on without wrapping
claimDailyRewardNoWrap ==
  /\ showDailyReward
  /\ LET newDay == rewardDay + 1
     IN  /\ coins' = coins + dailyRewardAmount
         /\ rewardDay' = newDay
         /\ \E okCoins, okDate, okDay \in Outcomes :
               store' = [store EXCEPT
                           !.coins = IF okCoins THEN coins + dailyRewardAmount ELSE @,
                           !.rewardedToday = IF okDate THEN TRUE ELSE @,
                           !.rewardDay = IF okDay THEN newDay ELSE @]
  /\ showDailyReward' = FALSE
  /\ UNCHANGED << playVars, highScore, loader, dailyRewardAmount >>

\* the CLAIM! button of the daily reward modal
claimDailyReward ==
  /\ showDailyReward
  /\ LET newDay == (rewardDay % Len(DAILY_REWARDS)) + 1
     IN  /\ coins' = coins + dailyRewardAmount
         /\ rewardDay' = newDay
         /\ \E okCoins, okDate, okDay \in Outcomes :
               store' = [store EXCEPT
                           !.coins = IF okCoins THEN coins + dailyRewardAmount ELSE @,
                           !.rewardedToday = IF okDate THEN TRUE ELSE @,
                           !.rewardDay = IF okDay THEN newDay ELSE @]
  /\ showDailyReward' = FALSE
  /\ UNCHANGED << playVars, highScore, loader, dailyRewardAmount >>

\* ------------------------------------------------------------ specification
Next ==
  \/ Play
  \/ startBossLevel
  \/ loop
  \/ throwKnife
  \/ throwLanded
  \/ winTimer
  \/ watchAdContinue
  \/ restartGame
  \/ nextStage
  \/ watchAdDouble
  \/ IxAnimate
  \/ IxThrowKnife
  \/ IxRestartGame
  \/ IxNextStage
  \/ mount
  \/ loadCoins
  \/ loadHighScore
  \/ loadLastRewardDate
  \/ loadRewardDay
  \/ applySavedData
  \/ claimDailyReward

Spec == Init /\ [][Next]_vars

TypeOK ==
  /\ variant \in {"game", "index"}
  /\ LessEq(Whole(0), rotation) /\ Less(rotation, FullTurn)
  /\ frames \in 0..MaxFrames
  /\ gameState \in {"ready", "boss_intro", "playing", "failed", "win"}
  /\ currentBoss \in 0..Len(BOSSES)
  /\ isThrowing \in BOOLEAN
  /\ hasUsedContinue \in BOOLEAN
  /\ scenario \in {"play", "launch", "faulty"}
  /\ loader.pc \in {"mount", "sound", "coins", "highScore", "date", "reward", "done"}
  /\ showDailyReward \in BOOLEAN
  /\ rewardDay \in 1..Len(DAILY_REWARDS)
  /\ dailyRewardAmount \in {DAILY_REWARDS[i] : i \in 1..Len(DAILY_REWARDS)}
  /\ store.coins \in Nat \cup {Absent}
  /\ store.highScore \in Nat \cup {Absent}

\* ------------------------------------------------------------------ claims
\* the collision gap and the knife budget of the variant that runs
Gap == IF variant = "game" THEN COLLISION_GAP ELSE IxCOLLISION_GAP

Budget == IF variant = "game" THEN TotalKnives(isBossLevel, currentBoss) ELSE IxTOTAL_KNIVES

FlightCount(q) == Cardinality({i \in 1..Len(q) : q[i].kind = "throw"})

WinPending(q) == \E i \in 1..Len(q) : q[i].kind = "win"

\* x - y as a real number, without the rounding of the subtraction
Difference(x, y) == Num(x.t - y.t, x.e - y.e)

\* the distance of two angles on the circle, as a real number: the smaller of
\* |a - b| and 360 - |a - b|
CircleDistance(a, b) ==
  LET d == MathAbs(Difference(a, b))
      back == Difference(FullTurn, d)
  IN  IF Less(back, d) THEN back ELSE d

\* x lies in [0, 360)
InTurn(x) == LessEq(Whole(0), x) /\ Less(x, FullTurn)

\* C1: in every reachable state any two angles of the stuck-knife ledger are
\* at least the collision gap apart (18 degrees in the game, 25 in index.tsx).
C1_LedgerSeparated ==
  \A i, j \in 1..Len(stuckKnives) :
     i # j => LessEq(Gap, CircleDistance(stuckKnives[i], stuckKnives[j]))

\* a throw was refused by the collision test against a ledger of several knives
C1_Witness ==
  /\ variant = "game"
  /\ gameState = "failed"
  /\ Len(stuckKnives) >= 3

\* C2: whenever the phase is win, the number of stuck knives equals the knife
\* budget of the current stage, also in a round in which the continue was used.
C2_WinMeansBudget == gameState = "win" => Len(stuckKnives) = Budget

\* C3: while the win sequence of the previous throw is pending (its timer is
\* scheduled and has not fired), every throw call is rejected: it changes
\* nothing, also when knivesLeft is still positive after a continue.
C3_NoThrowWhileWinPending ==
  [][(variant = "game" /\ WinPending(pending) /\ throwKnife) => UNCHANGED vars]_vars

\* C4: at most one throw is in flight at any time, and a throw call made
\* between the acceptance of a throw and its resolution changes nothing, so
\* every change of one throw is applied before the next throw is accepted.
C4_OneThrowInFlight ==
  [][/\ FlightCount(pending') <= 1
     /\ (variant = "game" /\ FlightPending(pending) /\ throwKnife) => UNCHANGED vars]_vars

\* a knife is in flight while the round could otherwise take a throw
C4_Witness ==
  /\ variant = "game"
  /\ FlightPending(pending)
  /\ gameState = "playing"
  /\ knivesLeft > 1
  /\ Len(stuckKnives) > 0

\* C5: the continue is used at most once per round: a step that uses it
\* starts from hasUsedContinue = FALSE and sets it, and hasUsedContinue is
\* cleared only by a step that starts a round.
C5_ContinueOncePerRound ==
  [][/\ continues' # continues => (~hasUsedContinue /\ hasUsedContinue')
     /\ (hasUsedContinue /\ ~hasUsedContinue') =>
           (rounds' # rounds \/ gameState = "boss_intro")]_vars

\* the round failed a second time after its continue was used
C5_Witness ==
  /\ variant = "game"
  /\ gameState = "failed"
  /\ hasUsedContinue
  /\ continues < MaxContinues

\* C6: in every reachable state, in every phase, 0 <= knivesLeft <= the knife
\* budget of the current stage.
C6_KnivesLeftInRange == 0 <= knivesLeft /\ knivesLeft <= Budget

\* the knives of a continue are used up and the round is still playing
C6_Witness ==
  /\ variant = "game"
  /\ hasUsedContinue
  /\ gameState = "playing"
  /\ knivesLeft = 0
  /\ Len(stuckKnives) < Budget

\* C7: in every reachable state, in every phase, applesHit is at most the
\* target count of the current stage (10, or the boss's apple count).
C7_ApplesHitInRange ==
  variant = "game" => applesHit <= TotalApples(isBossLevel, currentBoss)

\* the edges the phase may take
PhaseEdges ==
  { << "ready", "boss_intro" >>, << "ready", "playing" >>,
    << "boss_intro", "playing" >>, << "playing", "failed" >>,
    << "playing", "win" >>, << "failed", "playing" >>,
    << "win", "playing" >>, << "win", "boss_intro" >> }

\* C8: the phase changes only along the edges ready -> boss_intro | playing,
\* boss_intro -> playing, playing -> failed | win, failed -> playing,
\* win -> playing | boss_intro.
C8_PhaseEdges ==
  [][gameState' # gameState => << gameState, gameState' >> \in PhaseEdges]_vars

\* C9: a throw call made when the phase is not playing, or when knivesLeft <= 0,
\* or (game) while a throw is in flight, changes no state variable and
\* schedules no resolution.
C9_RejectedThrowIsNoOp ==
  [][(\/ /\ variant = "game"
         /\ (gameState # "playing" \/ knivesLeft <= 0 \/ FlightPending(pending))
         /\ throwKnife
      \/ /\ variant = "index"
         /\ (gameState # "playing" \/ knivesLeft <= 0)
         /\ IxThrowKnife) => UNCHANGED vars]_vars

\* a round that has failed still holds knives: only the phase rejects a throw
C9_Witness ==
  /\ variant = "game"
  /\ gameState = "failed"
  /\ knivesLeft > 0
  /\ ~isThrowing
  /\ pending = << >>

\* the step resolves the throw in flight
FlightResolved == FlightPending(pending) /\ ~FlightPending(pending')

\* the knife in flight lands within the collision gap of a knife of its ledger
FlightCollides ==
  KnifeCollision(TheFlight(pending).knives, TheFlight(pending).hitAngle)

\* C10: when the resolved angle of a throw collides with a stuck knife, the
\* phase becomes failed and the ledger, the apples, knivesLeft, applesHit,
\* score and coins are left as they were.
C10_CollisionFrame ==
  [][(\/ /\ variant = "game"
         /\ FlightResolved
         /\ FlightCollides
      \/ /\ variant = "index"
         /\ ~IxThrowRejected
         /\ IxKnifeCollision(stuckKnives, HitAngle(rotation))
         /\ IxThrowKnife) =>
        /\ gameState' = "failed"
        /\ UNCHANGED << stuckKnives, apples, knivesLeft, applesHit, score, coins >>]_vars

\* the visible apples within APPLE_GAP of the angle at which the knife in
\* flight lands
FlightHits ==
  Cardinality({ i \in 1..Len(apples) :
                  /\ apples[i].visible
                  /\ Less(CircleDistance(apples[i].angle, TheFlight(pending).hitAngle),
                          Whole(15)) })

\* C11: a non-colliding throw that hits h visible apples appends exactly its
\* hit angle to the ledger, decreases knivesLeft by exactly 1, increases
\* applesHit by h, score by 10 + 5h and coins by 5h.
C11_ThrowEffect ==
  [][(variant = "game" /\ FlightResolved /\ ~FlightCollides) =>
        /\ stuckKnives' = Append(stuckKnives, TheFlight(pending).hitAngle)
        /\ knivesLeft' = knivesLeft - 1
        /\ applesHit' = applesHit + FlightHits
        /\ score' = score + KnifeScore + AppleScore * FlightHits
        /\ coins' = coins + AppleScore * FlightHits]_vars

\* the round took its whole budget in non-colliding throws: no continue was
\* used and every knife of the budget is in the ledger
CleanRound ==
  IF variant = "game"
  THEN ~hasUsedContinue /\ knivesLeft = 0 /\ Len(stuckKnives) = Budget
  ELSE Len(stuckKnives) = Budget

\* the stage-completion reward the claims name: the boss's reward on a boss
\* round, 50 otherwise
RoundReward ==
  IF isBossLevel /\ currentBoss # 0 THEN BOSSES[currentBoss].reward ELSE BaseReward

\* C12: a round that starts with a full budget B and sees B consecutive
\* non-colliding throws ends in win (in the game: with the win timer running
\* until then), and over the round score grows by 10*B + 5*(apples hit) + R
\* and coins by 5*(apples hit) + R, R the boss's reward or 50; index.tsx has
\* no apples and no coins and adds 10*B + 50 to score.
C12_CleanRoundTotals ==
  CleanRound =>
    IF variant = "game"
    THEN /\ gameState = "playing" => WinPending(pending)
         /\ gameState \in {"playing", "win"}
         /\ gameState = "win" =>
              /\ score = roundScore + KnifeScore * Budget + AppleScore * applesHit
                           + RoundReward
              /\ coins = roundCoins + AppleScore * applesHit
                           + RoundReward
    ELSE /\ gameState = "win"
         /\ score = roundScore + KnifeScore * Budget + IxWinBonus

\* C13: start-up reads the stored coin balance before anything writes the
\* coin key: the store never holds less than the balance B it held at launch,
\* and once loading has finished the in-memory balance is at least B (exactly
\* B before the first credit).
C13_StartupKeepsCoins ==
  scenario = "launch" =>
    /\ loadData(store.coins, 0) >= launchCoins
    /\ loader.pc = "done" => coins >= launchCoins

\* C14: the in-memory coin balance never decreases: every step leaves it
\* equal or larger.
C14_CoinsNeverDecrease == [][coins' >= coins]_vars

\* C15: highScore is at least every value score has taken so far, and
\* highScore never decreases, also across restart and across loading of the
\* saved high score.
C15_HighScoreMonotone ==
  [][variant = "game" => (highScore' >= highScore /\ highScore' >= maxScore')]_vars

\* C16: a continue pressed in the failed phase sets knivesLeft to exactly 3,
\* hasUsedContinue to true and the phase to playing, and leaves the ledger,
\* the apples and their visibility, applesHit, score, coins, stage and
\* rotation unchanged.
C16_ContinueEffect ==
  [][(variant = "game" /\ continues' # continues) =>
       /\ gameState = "failed"
       /\ knivesLeft' = 3
       /\ hasUsedContinue'
       /\ gameState' = "playing"
       /\ UNCHANGED << stuckKnives, apples, applesHit, score, coins, stage,
                       rotation >>]_vars

\* a continue has just been taken in a round whose knives left were not 3,
\* with knives in the ledger, apples hit and a score to keep
C16_Witness ==
  /\ variant = "game"
  /\ continues > 0
  /\ hasUsedContinue
  /\ gameState = "playing"
  /\ knivesLeft = 3
  /\ Len(stuckKnives) + 3 # Budget
  /\ Len(stuckKnives) > 0
  /\ applesHit > 0
  /\ score > 0
  /\ Less(Whole(0), rotation)
  /\ ~isThrowing

\* a step that enters the playing phase through initGame (normal stage) or
\* through startBossLevel (boss stage)
RoundEntered ==
  /\ variant = "game"
  /\ gameState' = "playing"
  /\ (rounds' # rounds \/ gameState = "boss_intro")

\* C17: every entry into the playing phase through initGame (normal stage) or
\* startBossLevel (boss stage) starts a fresh round: empty ledger, as many
\* apples as the stage has and all of them visible, knivesLeft equal to the
\* knife budget, applesHit 0, hasUsedContinue false, rotation 0 and no throw
\* in flight.
C17_FreshRound ==
  [][RoundEntered =>
       /\ stuckKnives' = << >>
       /\ Len(apples') = TotalApples(isBossLevel', currentBoss')
       /\ \A i \in 1..Len(apples') : apples'[i].visible
       /\ knivesLeft' = TotalKnives(isBossLevel', currentBoss')
       /\ applesHit' = 0
       /\ ~hasUsedContinue'
       /\ rotation' = Whole(0)
       /\ ~isThrowing'
       /\ ~FlightPending(pending')]_vars

\* a step that stays within the round: no initGame call and no startBossLevel
WithinRound ==
  /\ rounds' = rounds
  /\ ~(gameState = "boss_intro" /\ gameState' = "playing")

\* C18: within one round the ledger is append-only: every step keeps the
\* recorded angles in place and in order and adds at most one angle at the
\* end; neither a failure nor a continue removes or changes an entry.
C18_LedgerAppendOnly ==
  [][WithinRound =>
       /\ Len(stuckKnives') \in {Len(stuckKnives), Len(stuckKnives) + 1}
       /\ \A i \in 1..Len(stuckKnives) : stuckKnives'[i] = stuckKnives[i]]_vars

\* a round that failed, was continued, took another knife and failed again,
\* with its knives in the ledger
C18_Witness ==
  /\ variant = "game"
  /\ gameState = "failed"
  /\ hasUsedContinue
  /\ knivesLeft < ContinueKnives
  /\ Len(stuckKnives) >= 2

\* a step of initGame from the ready or the win screen, of startBossLevel or
\* of watchAdContinue (in index.tsx: of nextStage)
CarryingStep ==
  \/ rounds' # rounds /\ restarts' = restarts
  \/ gameState = "boss_intro" /\ gameState' = "playing"
  \/ continues' # continues

\* C19: the score is carried unchanged across stages: starting a round, the
\* boss start, next stage, the doubled reward and the continue leave score as
\* it was, and restart is the only operation that sets it back to 0.
C19_ScoreCarried ==
  [][/\ CarryingStep => score' = score
     /\ restarts' # restarts => score' = 0
     /\ (score' < score) => restarts' # restarts]_vars

\* a press of NEXT STAGE or of the doubled reward on the win screen; the
\* doubled reward is the one that adds at least the stage reward to coins
WinLeft == gameState = "win" /\ rounds' # rounds

\* the phase initGame(stage + 1) leads to: the boss intro on every fifth
\* stage, playing otherwise
NextPhase ==
  IF variant = "game" /\ (stage + 1) % 5 = 0 THEN "boss_intro" ELSE "playing"

\* C20: in the win phase next stage increases stage by exactly 1 and starts
\* the new round; the doubled reward credits exactly one more stage reward
\* (the boss reward, or 50), leaves score unchanged, and then advances
\* exactly as next stage does.
C20_WinExit ==
  [][WinLeft =>
       /\ stage' = stage + 1
       /\ gameState' = NextPhase
       /\ (coins' >= coins + RoundReward) =>
             (coins' = coins + RoundReward /\ score' = score)]_vars

\* the round data a restart has to leave behind: those of a fresh stage-1 round
FreshStageOne ==
  /\ stuckKnives' = << >>
  /\ knivesLeft' = (IF variant = "game" THEN 10 ELSE 8)
  /\ rotation' = Whole(0)
  /\ variant = "game" =>
        /\ Len(apples') = 10
        /\ \A i \in 1..Len(apples') : apples'[i].visible
        /\ applesHit' = 0
        /\ ~hasUsedContinue'
        /\ ~isThrowing'

\* C21: a restart, from any stage, sets stage to 1 and score to 0, clears the
\* boss state (isBossLevel false, currentBoss null) and starts a fresh stage-1
\* round in the playing phase, and leaves coins, highScore and the
\* daily-reward streak state unchanged.
C21_RestartEffect ==
  [][(restarts' # restarts) =>
       /\ stage' = 1
       /\ score' = 0
       /\ ~isBossLevel'
       /\ currentBoss' = 0
       /\ gameState' = "playing"
       /\ FreshStageOne
       /\ UNCHANGED << coins, highScore, rewardDay, dailyRewardAmount,
                       showDailyReward >>
       /\ store'.rewardDay = store.rewardDay
       /\ store'.rewardedToday = store.rewardedToday]_vars

\* a restart has just been taken from a failed boss round: stage 1 is being
\* played with no boss, score 0, and the coins and high score earned before
C21_Witness ==
  /\ variant = "game"
  /\ restarts > 0
  /\ rounds > 5
  /\ stage = 1
  /\ score = 0
  /\ stuckKnives = << >>
  /\ gameState = "playing"
  /\ coins > 0
  /\ highScore > 0

\* C22: rotation is always in [0, 360) and advances only while the phase is
\* playing: a step taken in ready, boss_intro, failed or win leaves it where
\* it is (a round start sets it to 0), and a continue resumes from the angle
\* at which it halted.
C22_RotationOnlyWhilePlaying ==
  [][/\ InTurn(rotation)
     /\ InTurn(rotation')
     /\ (gameState # "playing" /\ WithinRound) => rotation' = rotation
     /\ (gameState # "playing") => rotation' \in {rotation, Whole(0)}
     /\ (continues' # continues) => rotation' = rotation]_vars

\* a round that halted at a non-zero angle, was continued from there, turned
\* on and was won, the wheel standing at a non-zero angle again
C22_Witness ==
  /\ variant = "game"
  /\ gameState = "win"
  /\ hasUsedContinue
  /\ continues > 0
  /\ Less(Whole(0), rotation)

\* the stage numbers that have a boss
BossStages == {5, 10, 15, 20, 25}

\* knife budget, apple count and reward of stage n as initGame and
\* startBossLevel set them up
StageKnives(n) == TotalKnives(getBossForStage(n) # 0, getBossForStage(n))
StageApples(n) == TotalApples(getBossForStage(n) # 0, getBossForStage(n))
StageRewardOf(n) == StageReward(getBossForStage(n) # 0, getBossForStage(n))

\* the table and the lookup, stage by stage
BossTableAsStated ==
  /\ \A n \in 0..MaxStage : (getBossForStage(n) # 0) <=> (n \in BossStages)
  /\ \A n \in (0..MaxStage) \ BossStages :
        StageKnives(n) = 10 /\ StageApples(n) = 10 /\ StageRewardOf(n) = 50
  /\ StageKnives(5) = 12 /\ StageRewardOf(5) = 200
  /\ \A m, n \in BossStages :
        m < n => /\ StageKnives(m) < StageKnives(n)
                 /\ StageRewardOf(m) < StageRewardOf(n)
                 /\ StageApples(m) > StageApples(n)

\* C23: getBossForStage(n) is non-null exactly for n in {5, 10, 15, 20, 25};
\* every other stage, also beyond 25, is a normal stage with 10 knives, 10
\* apples and reward 50; the stage-5 boss has 12 knives and reward 200; over
\* the five bosses knives and reward strictly increase and the apple count
\* strictly decreases. In the running game the boss intro is shown on those
\* five stages only.
C23_BossTable ==
  /\ BossTableAsStated
  /\ (gameState = "boss_intro") => (stage \in BossStages)

\* the stage-5 boss has been looked up and its round is being played with
\* its 12 knives and 8 apples
C23_Witness ==
  /\ variant = "game"
  /\ stage = 5
  /\ gameState = "playing"
  /\ isBossLevel
  /\ currentBoss # 0
  /\ BOSSES[currentBoss].stage = 5
  /\ knivesLeft = 12
  /\ Len(apples) = 8

\* a press of the CLAIM! button
Claimed == showDailyReward /\ ~showDailyReward'

\* C24: the daily reward is credited at most once per calendar day: it can be
\* claimed only while the stored last-reward date differs from today, a claim
\* stores today as the last-reward date, and the stored date stays today, so
\* that no further claim is possible that day in this session or after the
\* app is started again.
C24_OneRewardPerDay ==
  [][/\ showDailyReward' => ~store'.rewardedToday
     /\ Claimed => store'.rewardedToday
     /\ store.rewardedToday => store'.rewardedToday]_vars

\* the reward of each streak day
RewardTable == << 50, 100, 150, 200, 300, 500, 1000 >>

\* C25: a daily-reward claim made at streak day d (1 <= d <= 7) credits
\* exactly the d-th amount of 50, 100, 150, 200, 300, 500, 1000 and sets the
\* streak day to (d mod 7) + 1; the streak day stays in 1..7 and a claim at
\* day 7 yields day 1.
C25_StreakReward ==
  [][/\ rewardDay' \in 1..7
     /\ Claimed =>
          /\ rewardDay \in 1..7
          /\ coins' = coins + RewardTable[rewardDay]
          /\ rewardDay' = (rewardDay % 7) + 1
          /\ (rewardDay = 7 => rewardDay' = 1)]_vars

\* the reward of day 7 has been claimed: 1000 coins credited, the streak is
\* back at day 1 and stored so
C25_Witness ==
  /\ scenario = "launch"
  /\ loader.pc = "done"
  /\ loader.savedRewardDay = 7
  /\ ~loader.lastRewardToday
  /\ ~showDailyReward
  /\ rewardDay = 1
  /\ store.rewardDay = 1
  /\ store.rewardedToday
  /\ coins >= 1000

\* loadSavedData finishes after every one of its reads has thrown
LoadedNothing == loader.pc = "reward" /\ loader'.pc = "done" /\ loader.readsFailed

\* C26: when the reads of persistence fail, start-up still completes and the
\* game proceeds with coins 0, highScore 0 (if nothing has been scored yet),
\* streak day 1 and no daily reward offered.
C26_DefaultsAfterFailedReads ==
  [][LoadedNothing =>
       /\ coins' = 0
       /\ (score = 0 => highScore' = 0)
       /\ rewardDay' = 1
       /\ ~showDailyReward']_vars

\* C27: the angle tested for collision and recorded for a throw is
\* wrap(180 - rotation) with the rotation at the moment the throw resolves,
\* after the flight during which the wheel keeps turning, and it lies in
\* [0, 360).
C27_HitAngleAtResolution ==
  [][(variant = "game" /\ FlightResolved) =>
       /\ TheFlight(pending).hitAngle = HitAngle(rotation)
       /\ InTurn(TheFlight(pending).hitAngle)]_vars

\* a flight callback that found no collision has run
ResolvedHit == variant = "game" /\ FlightResolved /\ ~FlightCollides

\* the apples that are visible and less than 15 degrees from the hit angle
AppleStruck(i) ==
  /\ apples[i].visible
  /\ Less(CircleDistance(apples[i].angle, TheFlight(pending).hitAngle), Whole(15))

\* C28: on a non-colliding throw exactly the apples that are visible and less
\* than 15 degrees from the hit angle become invisible; within a round an
\* apple's visible flag only ever goes from true to false, an invisible apple
\* is never counted as hit again, and no apple leaves the collection.
C28_ApplesStruck ==
  [][WithinRound =>
       IF apples' = apples
       THEN /\ applesHit' = applesHit
            /\ ResolvedHit => \A i \in 1..Len(apples) : ~AppleStruck(i)
       ELSE /\ ResolvedHit
            /\ Len(apples') = Len(apples)
            /\ \A i \in 1..Len(apples) :
                  /\ apples'[i].id = apples[i].id
                  /\ apples'[i].angle = apples[i].angle
                  /\ apples'[i].visible = (apples[i].visible /\ ~AppleStruck(i))
            /\ applesHit' - applesHit =
                  Cardinality({i \in 1..Len(apples) :
                                 apples[i].visible /\ ~apples'[i].visible})]_vars

\* a knife has stuck less than 15 degrees from an apple hit by an earlier
\* knife: the apple stays invisible and is counted once
C28_Witness ==
  /\ variant = "game"
  /\ gameState = "playing"
  /\ \E i \in 1..Len(apples) :
        /\ ~apples[i].visible
        /\ Cardinality({k \in 1..Len(stuckKnives) :
                          Less(CircleDistance(apples[i].angle, stuckKnives[k]),
                               Whole(15))}) >= 2
  /\ applesHit = Cardinality({i \in 1..Len(apples) : ~apples[i].visible})

\* some knife of the ledger is less than 18 degrees from the angle in flight
TooClose ==
  \E k \in 1..Len(stuckKnives) :
     Less(CircleDistance(stuckKnives[k], TheFlight(pending).hitAngle), Whole(18))

\* the stated cases: 18 and 20 degrees apart are accepted, 17 is not, and 355
\* against 5 is 10 degrees apart
CollisionCases ==
  /\ ~KnifeCollision(<< Whole(0) >>, Whole(18))
  /\ ~KnifeCollision(<< Whole(0) >>, Whole(20))
  /\ KnifeCollision(<< Whole(0) >>, Whole(17))
  /\ KnifeCollision(<< Whole(90), Whole(5) >>, Whole(355))
  /\ KnifeCollision(<< Whole(355) >>, Whole(5))
  /\ ~KnifeCollision(<< Whole(350) >>, Whole(8))
  /\ ~KnifeCollision(<< >>, Whole(0))

\* C29: the collision test is true iff some angle in the ledger is strictly
\* less than 18 degrees from the candidate: exactly 18 or more from every
\* knife is accepted, 17 from any knife fails, and the distance is taken
\* across the 0/360 wrap. A throw that resolves within a round leaves the
\* ledger as it was exactly when the test is true.
C29_CollisionTest ==
  [][/\ CollisionCases
     /\ (variant = "game" /\ FlightResolved /\ WithinRound) =>
          IF TooClose
          THEN stuckKnives' = stuckKnives /\ gameState' = "failed"
          ELSE /\ stuckKnives' = Append(stuckKnives, TheFlight(pending).hitAngle)
               /\ gameState' # "failed"]_vars

\* a throw has failed on a ledger holding two accepted knives whose angles
\* differ by more than 180 degrees, so that their distance runs across 0/360
C29_Witness ==
  /\ variant = "game"
  /\ gameState = "failed"
  /\ ~hasUsedContinue
  /\ ~FlightPending(pending)
  /\ \E j, k \in 1..Len(stuckKnives) :
        /\ Less(HalfTurn, Difference(stuckKnives[j], stuckKnives[k]))
        /\ Less(CircleDistance(stuckKnives[j], stuckKnives[k]), Whole(40))

\* the smaller of two numbers
Smaller(x, y) == IF Less(x, y) THEN x ELSE y

\* the distance computed for a and b is symmetric, within [0, 180] and the
\* smaller of |a - b| and 360 - |a - b|, the operations being those of the
\* program's numbers
DistanceAsStated(a, b) ==
  LET d == AngleDiff(a, b)
  IN  /\ d = AngleDiff(b, a)
      /\ LessEq(Whole(0), d)
      /\ LessEq(d, Whole(180))
      /\ d = Smaller(MathAbs(Minus(a, b)), Minus(Whole(360), MathAbs(Minus(a, b))))

\* the angles paired with one another: the numbers nearest to the multiples
\* of AngleStep tenths of a degree
AngleGrid == {Literal(n * AngleStep) : n \in 0..(3599 \div AngleStep)}

DistanceOnGrid == \A a, b \in AngleGrid : DistanceAsStated(a, b)

\* C30: the angular distance computed for knives and for apples (|a - b|,
\* replaced by 360 minus it when it exceeds 180) is symmetric in its
\* arguments, lies in [0, 180] for all a, b in [0, 360) and equals
\* min(|a - b|, 360 - |a - b|); so it is for every knife and every apple the
\* knife in flight is going to be compared with.
C30_AngularDistance ==
  /\ DistanceOnGrid
  /\ (variant = "game" /\ FlightPending(pending)) =>
       LET flight == TheFlight(pending)
       IN  /\ \A k \in 1..Len(flight.knives) :
                 DistanceAsStated(flight.knives[k], flight.hitAngle)
           /\ \A i \in 1..Len(flight.apples) :
                 DistanceAsStated(flight.apples[i].angle, flight.hitAngle)

\* the knife stuck last was compared with a knife more than 180 degrees away
\* by |a - b|, and it struck an apple
C30_Witness ==
  /\ variant = "game"
  /\ gameState = "playing"
  /\ ~FlightPending(pending)
  /\ Len(stuckKnives) >= 2
  /\ \E k \in 1..(Len(stuckKnives) - 1) :
        Less(HalfTurn, MathAbs(Minus(stuckKnives[k], stuckKnives[Len(stuckKnives)])))
  /\ \E i \in 1..Len(apples) :
        /\ ~apples[i].visible
        /\ Less(AngleDiff(apples[i].angle, stuckKnives[Len(stuckKnives)]), Whole(15))
        /\ Less(HalfTurn, MathAbs(Minus(apples[i].angle, stuckKnives[Len(stuckKnives)])))

\* the counts of apples the game generates: 10 on a normal stage, and those of
\* the five bosses
CountsUsed == {10, 8, 6, 5, 4, 3}

\* the way from angle a forward round the circle to angle b, as a real number
Forward(a, b) ==
  LET d == Difference(b, a)
  IN  IF Negative(d) THEN Num(d.t + FullTurn.t, d.e) ELSE d

\* the angle that follows a on the circle among the angles of as: the gap to it
NextGap(as, i) ==
  LET gaps == { Forward(as[i].angle, as[j].angle) : j \in (1..Len(as)) \ {i} }
  IN  CHOOSE g \in gaps : \A h \in gaps : LessEq(g, h)

\* as is what generate(count) has to return
GeneratedAsStated(as, count) ==
  /\ Len(as) = count
  /\ \A i \in 1..count :
        /\ as[i].id = i - 1
        /\ as[i].visible
        /\ InTurn(as[i].angle)
        /\ NextGap(as, i) = StepFor(count)

\* every count used and every offset below 360 / count: the numbers nearest
\* to the tenths of a degree
GenerateOnGrid ==
  \A count \in CountsUsed :
     \A offset \in 0..((3600 \div count) - 1) :
        GeneratedAsStated(ApplesAt(count, Literal(offset)), count)

\* a round has just been set up: nothing thrown, nothing pending
JustGenerated ==
  /\ variant = "game"
  /\ gameState = "playing"
  /\ stuckKnives = << >>
  /\ pending = << >>

\* C31: generate(count) returns exactly count targets with ids 0..count-1,
\* all visible, whose angles all lie in [0, 360) and, sorted circularly, are
\* spaced exactly 360/count apart, for every offset in [0, 360/count) and
\* every count used by the game (10, 8, 6, 5, 4, 3); so are the apples of
\* every round that has just been set up.
C31_GenerateEvenlySpaced ==
  /\ GenerateOnGrid
  /\ JustGenerated =>
       /\ Len(apples) \in CountsUsed
       /\ GeneratedAsStated(apples, Len(apples))

\* C32: a round can always still end: in every reachable state with phase
\* playing, no throw in flight and no win pending, knivesLeft >= 1, so the
\* round never rests in playing with zero knives left and fewer stuck knives
\* than the budget, also after a continue taken with fewer than budget - 3
\* knives stuck.
C32_RoundCanEnd ==
  (gameState = "playing" /\ ~FlightPending(pending) /\ ~WinPending(pending)) =>
     knivesLeft >= 1

\* C33: in every round the stage-completion reward is credited to score and
\* to coins at most once by the win sequence: between one round start and
\* the next the delayed win handler runs at most one time.
C33_OneWinPerRound == roundWins <= 1

\* the phase leaves playing for win or failed
PlayingLeft == gameState = "playing" /\ gameState' \in {"win", "failed"}

\* a round is initialised: initGame from the ready, the win or the failed
\* screen, or startBossLevel
RoundInitialised ==
  \/ rounds' # rounds
  \/ gameState = "boss_intro" /\ gameState' = "playing"

\* C34: no throw outlives its round: whenever the phase leaves playing (to
\* win or failed) or a new round is initialised (next stage, restart, boss
\* start), no throw resolution and no win timer of the earlier round is
\* still pending, so that no late callback writes the old ledger, knife
\* count, score, coins or phase into the later state.
C34_NoThrowOutlivesRound ==
  [][(PlayingLeft \/ RoundInitialised) => pending' = << >>]_vars

\* C35: in a round in which the continue has not been used, knivesLeft plus
\* the number of stuck knives equals the knife budget of the stage in every
\* state from round start to round end; in index.tsx knivesLeft +
\* knives.length equals 8 in every reachable state.
C35_KnivesAccounted ==
  IF variant = "game"
  THEN (~hasUsedContinue /\ gameState \in {"playing", "failed", "win"}) =>
          knivesLeft + Len(stuckKnives) = TotalKnives(isBossLevel, currentBoss)
  ELSE knivesLeft + Len(stuckKnives) = 8

====
